---------------------------- MODULE Spec2Model ----------------------------
(***************************************************************************)
(* Model of the StratoVirt device/CPU-state core:                          *)
(*   - virtio/src/lib.rs: the VirtioDevice trait (feature negotiation,     *)
(*     reset, the default unrealize / deactivate / update_config, the      *)
(*     configuration space accessors, device type and status constants);   *)
(*   - cpu/src/aarch64/core_regs.rs: the Arm64CoreRegs register-id         *)
(*     encoder and the bulk get_core_regs / set_core_regs.                 *)
(*   - machine_manager/src/config/network.rs: add_netdev, parse_netdev,    *)
(*     parse_net and the checks of a network interface configuration.      *)
(*                                                                         *)
(* Machine words are modelled as the set of their set bit positions: a u32 *)
(* is a subset of 0..31, a u64 a subset of 0..63, a u128 a subset of       *)
(* 0..127.  `a | b` is union, `a & b` intersection, `a & !b` set           *)
(* difference, `(x as u64) << 32` a shift of every position by 32, and a   *)
(* narrowing cast `as uN` keeps the positions below N.                     *)
(***************************************************************************)
EXTENDS Integers, Sequences, FiniteSets, TLC

VARIABLES
    dev,            \* the virtio device: device_features and driver_features per page
    status,         \* the guest-visible device status byte, owned by the transport
    activate_calls, \* number of activate() calls since the last reset
    status_trace,   \* the status values written since the last reset
    last,           \* the last call made on the device, with the state before it
    ord,            \* order experiment: two devices negotiating in opposite page order
    enc,            \* encoder experiment: register variants and the ids computed
    vcpu,           \* the vcpu's core registers, as KVM keeps them by register id
    bad,            \* the register ids whose KVM access currently fails
    call,           \* the last get_core_regs / set_core_regs call and its outcome
    rt,             \* progress of a capture / restore / capture round trip
    cfg,            \* the device configuration space and the last access to it
    net             \* the VM's netdev table and the last network configuration call

devVars == <<dev, status, activate_calls, status_trace, last>>
regVars == <<vcpu, bad, call, rt>>
confVars == <<cfg, net>>
vars == <<dev, status, activate_calls, status_trace, last, ord, enc, vcpu, bad, call, rt,
          cfg, net>>

(***************************************************************************)
(* Machine words as bit sets.                                              *)
(***************************************************************************)
U32 == 0..31

\* (x as u64) << 32
Shl32(x) == {b + 32 : b \in x}

\* the 32-bit window of a 64-bit value for a page (0: bits 0-31, 1: bits 32-63)
Window(mask, page) ==
    IF page = 0 THEN {b \in mask : b < 32}
                ELSE {b - 32 : b \in {c \in mask : c >= 32}}

Ok == "Ok"
Err == "Err"

(***************************************************************************)
(* virtio/src/lib.rs: device type registry and device status bits.         *)
(***************************************************************************)
VIRTIO_TYPE_NET == 1
VIRTIO_TYPE_BLOCK == 2
VIRTIO_TYPE_CONSOLE == 3
VIRTIO_TYPE_RNG == 4
VIRTIO_TYPE_BALLOON == 5
VIRTIO_TYPE_SCSI == 8
VIRTIO_TYPE_GPU == 16
VIRTIO_TYPE_VSOCK == 19
VIRTIO_TYPE_FS == 26

CONFIG_STATUS_ACKNOWLEDGE == 1
CONFIG_STATUS_DRIVER == 2
CONFIG_STATUS_DRIVER_OK == 4
CONFIG_STATUS_FEATURES_OK == 8
CONFIG_STATUS_FAILED == 128

HasStatus(s, bit) == (s \div bit) % 2 = 1
AddStatus(s, bit) == IF HasStatus(s, bit) THEN s ELSE s + bit

(***************************************************************************)
(* The inputs the model draws from.                                        *)
(***************************************************************************)
\* feature bits a driver may offer in a 32-bit window
OfferedBits == {0, 5, 9, 20, 31}
OfferedValues == SUBSET OfferedBits

\* the device feature windows of the device variants modelled
DeviceFeatureSets ==
    { <<{0, 5, 9}, {0}>>, <<{0, 5, 9}, {}>>, <<{5, 20, 31}, {0, 31}>>, <<{}, {31}>> }

\* the device types of the device variants modelled
DeviceTypes == {VIRTIO_TYPE_NET, VIRTIO_TYPE_FS}

Pages == {0, 1}

(***************************************************************************)
(* VirtioDevice: the per-variant accessors.  A variant keeps the device    *)
(* features and the accepted driver features as one 32-bit window per page.*)
(***************************************************************************)
FreshDevice(features) ==
    [device_features |-> [p \in Pages |-> features[p + 1]],
     driver_features |-> [p \in Pages |-> {}]]

\* a variant as constructed: its device type, not yet realized
NewDevice(type, features) ==
    [device_type |-> type,
     realized |-> FALSE,
     device_features |-> FreshDevice(features).device_features,
     driver_features |-> FreshDevice(features).driver_features]

\* realize(): the one-time setup that makes the constructed device usable
realize(d) == [ret |-> Ok, dev |-> [d EXCEPT !.realized = TRUE]]

device_type(d) == d.device_type

get_device_features(d, features_select) == d.device_features[features_select]

get_driver_features(d, features_select) == d.driver_features[features_select]

set_driver_features(d, page, value) ==
    [d EXCEPT !.driver_features[page] = value]

(***************************************************************************)
(* VirtioDevice::checked_driver_features (default method).                 *)
(***************************************************************************)
\* mutant: the unsupported bits are reported but not cleared
checked_driver_features_nomask(d, page, value) ==
    IF page = 0
    THEN Shl32(get_driver_features(d, 1)) \cup value
    ELSE Shl32(value) \cup get_driver_features(d, 0)

\* mutant: negotiating page 1 forgets the window accepted for page 0
checked_driver_features_forget0(d, page, value) ==
    LET v == value \ (value \ get_device_features(d, page))
    IN  IF page = 0
        THEN Shl32(get_driver_features(d, 1)) \cup v
        ELSE Shl32(v)

\* mutant: the two halves of the returned mask are swapped
checked_driver_features_swapped(d, page, value) ==
    LET v == value \ (value \ get_device_features(d, page))
    IN  IF page = 0
        THEN Shl32(v) \cup get_driver_features(d, 1)
        ELSE Shl32(get_driver_features(d, 0)) \cup v

\* mutant: the offered value is checked against the other page's device features
checked_driver_features_other_page(d, page, value) ==
    LET v == value \ (value \ get_device_features(d, 1 - page))
    IN  IF page = 0
        THEN Shl32(get_driver_features(d, 1)) \cup v
        ELSE Shl32(v) \cup get_driver_features(d, 0)

checked_driver_features(d, page, value) ==
    LET unsupported_features == value \ get_device_features(d, page)
        v == IF unsupported_features # {}
             THEN value \ unsupported_features
             ELSE value
    IN  IF page = 0
        THEN Shl32(get_driver_features(d, 1)) \cup v
        ELSE Shl32(v) \cup get_driver_features(d, 0)

(***************************************************************************)
(* VirtioDevice::reset (default method): a no-op that returns Ok.          *)
(***************************************************************************)
\* mutant: the default reset clears the negotiated driver features
reset_clearing(d) ==
    [ret |-> Ok, dev |-> [d EXCEPT !.driver_features = [p \in Pages |-> {}]]]

reset(d) == [ret |-> Ok, dev |-> d]

(***************************************************************************)
(* VirtioDevice::unrealize, deactivate, update_config (default methods):   *)
(* each bails with a message and touches nothing.  A message is the format *)
(* string's pieces with the formatted arguments in their places.           *)
(***************************************************************************)
unrealize(d) ==
    [ret |-> Err,
     msg |-> <<"Unrealize of the virtio device is not implemented">>,
     dev |-> d]

\* mutant: the default deactivate succeeds, as the default reset does
deactivate_ok(d) == [ret |-> Ok, msg |-> <<>>, dev |-> d]

deactivate(d) ==
    [ret |-> Err,
     msg |-> <<"Reset this device is not supported, virtio dev type is ",
               device_type(d)>>,
     dev |-> d]

update_config(d, dev_config) ==
    [ret |-> Err,
     msg |-> <<"Unsupported to update configuration">>,
     dev |-> d]

(***************************************************************************)
(* The device lifecycle, as the transport drives it.  The transport owns   *)
(* the status byte; the device only sees the calls the transport makes.    *)
(***************************************************************************)
NoCall == [op |-> "none", page |-> 0, value |-> {}, mask |-> {}, ret |-> Ok,
           msg |-> <<>>, pre_dev |-> FreshDevice(<<{}, {}>>), pre_status |-> 0,
           pre_activate_calls |-> 0]

Call(op, page, value, mask, ret) ==
    [op |-> op, page |-> page, value |-> value, mask |-> mask, ret |-> ret,
     msg |-> <<>>, pre_dev |-> dev, pre_status |-> status,
     pre_activate_calls |-> activate_calls]

\* the record of a call that returned a result with a message
CallResult(op, r) == [Call(op, 0, {}, {}, r.ret) EXCEPT !.msg = r.msg]

\* the machine realizes the device once, before the guest sees it
Realize ==
    /\ ~dev.realized
    /\ LET r == realize(dev)
       IN  /\ dev' = r.dev
           /\ last' = Call("realize", 0, {}, {}, r.ret)
    /\ UNCHANGED <<status, activate_calls, status_trace, ord, enc, regVars, confVars>>

\* the transport accepts driver feature writes between DRIVER and FEATURES_OK
Negotiating ==
    /\ HasStatus(status, CONFIG_STATUS_DRIVER)
    /\ ~HasStatus(status, CONFIG_STATUS_FEATURES_OK)
    /\ ~HasStatus(status, CONFIG_STATUS_FAILED)

\* a guest status write that adds one bit, accepted only in protocol order
WriteStatus(required, bit) ==
    /\ dev.realized
    /\ status = required
    /\ status' = AddStatus(status, bit)
    /\ status_trace' = Append(status_trace, bit)

Acknowledge ==
    /\ WriteStatus(0, CONFIG_STATUS_ACKNOWLEDGE)
    /\ last' = Call("status", 0, {}, {}, Ok)
    /\ UNCHANGED <<dev, activate_calls, ord, enc, regVars, confVars>>

Driver ==
    /\ WriteStatus(CONFIG_STATUS_ACKNOWLEDGE, CONFIG_STATUS_DRIVER)
    /\ last' = Call("status", 0, {}, {}, Ok)
    /\ UNCHANGED <<dev, activate_calls, ord, enc, regVars, confVars>>

FeaturesOk ==
    /\ WriteStatus(CONFIG_STATUS_ACKNOWLEDGE + CONFIG_STATUS_DRIVER,
                   CONFIG_STATUS_FEATURES_OK)
    /\ last' = Call("status", 0, {}, {}, Ok)
    /\ UNCHANGED <<dev, activate_calls, ord, enc, regVars, confVars>>

\* writing DRIVER_OK makes the transport call activate()
DriverOk ==
    /\ WriteStatus(CONFIG_STATUS_ACKNOWLEDGE + CONFIG_STATUS_DRIVER
                       + CONFIG_STATUS_FEATURES_OK,
                   CONFIG_STATUS_DRIVER_OK)
    /\ activate_calls' = activate_calls + 1
    /\ last' = Call("activate", 0, {}, {}, Ok)
    /\ UNCHANGED <<dev, ord, enc, regVars, confVars>>

\* any stage may move to FAILED
Fail ==
    /\ dev.realized
    /\ ~HasStatus(status, CONFIG_STATUS_FAILED)
    /\ status' = AddStatus(status, CONFIG_STATUS_FAILED)
    /\ status_trace' = Append(status_trace, CONFIG_STATUS_FAILED)
    /\ last' = Call("status", 0, {}, {}, Ok)
    /\ UNCHANGED <<dev, activate_calls, ord, enc, regVars, confVars>>

\* the guest writes 0 to the status: the transport calls reset() on the device
\* and goes back to the initial status
Reset ==
    /\ status # 0
    /\ LET r == reset(dev)
       IN  /\ dev' = r.dev
           /\ last' = Call("reset", 0, {}, {}, r.ret)
    /\ status' = 0
    /\ status_trace' = <<>>
    /\ activate_calls' = 0
    /\ UNCHANGED <<ord, enc, regVars, confVars>>

\* checked_driver_features alone: the transport asks what would be accepted
Checked(page, value) ==
    /\ Negotiating
    /\ last' = Call("checked", page, value,
                    checked_driver_features(dev, page, value), Ok)
    /\ UNCHANGED <<dev, status, activate_calls, status_trace, ord, enc, regVars, confVars>>

\* a negotiation step: checked_driver_features, then set_driver_features with
\* the page's window of the result
NegotiationStep(d, page, value) ==
    LET mask == checked_driver_features(d, page, value)
    IN  [dev |-> set_driver_features(d, page, Window(mask, page)), mask |-> mask]

\* mutant: a driver offering bits the device lacks is rejected (FAILED)
NegotiateRejecting(page, value) ==
    /\ Negotiating
    /\ LET n == NegotiationStep(dev, page, value)
       IN  /\ dev' = n.dev
           /\ last' = Call("negotiate", page, value, n.mask, Ok)
    /\ status' = IF value \ get_device_features(dev, page) # {}
                 THEN AddStatus(status, CONFIG_STATUS_FAILED)
                 ELSE status
    /\ UNCHANGED <<activate_calls, status_trace, ord, enc, regVars, confVars>>

Negotiate(page, value) ==
    /\ Negotiating
    /\ LET n == NegotiationStep(dev, page, value)
       IN  /\ dev' = n.dev
           /\ last' = Call("negotiate", page, value, n.mask, Ok)
    /\ UNCHANGED <<status, activate_calls, status_trace, ord, enc, regVars, confVars>>

\* hot-unplug, deactivation and a configuration update may be asked of the
\* device at any time: before realize, after it, and while it operates
Unrealize ==
    /\ last' = CallResult("unrealize", unrealize(dev))
    /\ dev' = unrealize(dev).dev
    /\ UNCHANGED <<status, activate_calls, status_trace, ord, enc, regVars, confVars>>

Deactivate ==
    /\ last' = CallResult("deactivate", deactivate(dev))
    /\ dev' = deactivate(dev).dev
    /\ UNCHANGED <<status, activate_calls, status_trace, ord, enc, regVars, confVars>>

UpdateConfig(dev_config) ==
    /\ last' = CallResult("update_config", update_config(dev, dev_config))
    /\ dev' = update_config(dev, dev_config).dev
    /\ UNCHANGED <<status, activate_calls, status_trace, ord, enc, regVars, confVars>>

DevInit ==
    /\ dev \in {NewDevice(t, f) : t \in DeviceTypes, f \in DeviceFeatureSets}
    /\ status = 0
    /\ activate_calls = 0
    /\ status_trace = <<>>
    /\ last = NoCall

(***************************************************************************)
(* cpu/src/aarch64/core_regs.rs: the kernel's kvm_regs layout, which       *)
(* offset_of! reads.  A member is [name, size of one element, count,       *)
(* alignment]; a member starts at the next multiple of its alignment.      *)
(***************************************************************************)
KVM_NR_SPSR == 5
KVM_NR_REGS == 31
KVM_NR_FP_REGS == 32

Member(name, size, count, align) ==
    [name |-> name, size |-> size, count |-> count, align |-> align]

AlignUp(off, align) == ((off + align - 1) \div align) * align

RECURSIVE LayoutOffset(_, _, _, _)
LayoutOffset(layout, i, off, name) ==
    LET start == AlignUp(off, layout[i].align)
    IN  IF layout[i].name = name
        THEN start
        ELSE LayoutOffset(layout, i + 1,
                          start + layout[i].size * layout[i].count, name)

RECURSIVE LayoutEnd(_, _, _)
LayoutEnd(layout, i, off) ==
    IF i > Len(layout)
    THEN off
    ELSE LayoutEnd(layout, i + 1,
                   AlignUp(off, layout[i].align) + layout[i].size * layout[i].count)

user_pt_regs ==
    << Member("regs", 8, 31, 8), Member("sp", 8, 1, 8),
       Member("pc", 8, 1, 8), Member("pstate", 8, 1, 8) >>

user_fpsimd_state ==
    << Member("vregs", 16, 32, 16), Member("fpsr", 4, 1, 4),
       Member("fpcr", 4, 1, 4), Member("__reserved", 4, 2, 4) >>

kvm_regs ==
    << Member("regs", LayoutEnd(user_pt_regs, 1, 0), 1, 8),
       Member("sp_el1", 8, 1, 8), Member("elr_el1", 8, 1, 8),
       Member("spsr", 8, KVM_NR_SPSR, 8),
       Member("fp_regs", LayoutEnd(user_fpsimd_state, 1, 0), 1, 16) >>

\* offset_of!(kvm_regs, field)
offset_of(layout, name) == LayoutOffset(layout, 1, 0, name)

\* offset_of!(kvm_regs, outer, inner_type, field)
offset_of_nested(outer, inner, name) ==
    offset_of(kvm_regs, outer) + offset_of(inner, name)

(***************************************************************************)
(* The register id tags of the KVM_GET_ONE_REG ABI, as bit sets.           *)
(***************************************************************************)
KVM_REG_ARM64 == {61, 62}         \* 0x6000000000000000
KVM_REG_SIZE_U32 == {53}          \* 0x0020000000000000
KVM_REG_SIZE_U64 == {52, 53}      \* 0x0030000000000000
KVM_REG_SIZE_U128 == {54}         \* 0x0040000000000000
KVM_REG_ARM_CORE == {20}          \* 0x00100000

\* a natural number below 2^31 as a machine word
Bits(n) == {i \in 0..30 : (n \div (2 ^ i)) % 2 = 1}

(***************************************************************************)
(* enum Arm64CoreRegs: a variant is a tag with an index (0 when the        *)
(* variant carries none).                                                  *)
(***************************************************************************)
Reg(tag, idx) == [tag |-> tag, idx |-> idx]

KvmSpEl1 == Reg("KvmSpEl1", 0)
KvmElrEl1 == Reg("KvmElrEl1", 0)
KvmSpsr(idx) == Reg("KvmSpsr", idx)
UserPTRegRegs(idx) == Reg("UserPTRegRegs", idx)
UserPTRegSp == Reg("UserPTRegSp", 0)
UserPTRegPc == Reg("UserPTRegPc", 0)
UserPTRegPState == Reg("UserPTRegPState", 0)
UserFPSIMDStateVregs(idx) == Reg("UserFPSIMDStateVregs", idx)
UserFPSIMDStateFpsr == Reg("UserFPSIMDStateFpsr", 0)
UserFPSIMDStateFpcr == Reg("UserFPSIMDStateFpcr", 0)

Panic == [panic |-> TRUE, id |-> {}]

\* mutant: the id carries the byte offset itself, not the offset in 32-bit words
RegId_byte_offset(register_size, reg_offset) ==
    [panic |-> FALSE,
     id |-> KVM_REG_ARM64 \cup register_size \cup KVM_REG_ARM_CORE
                \cup Bits(reg_offset)]

RegId(register_size, reg_offset) ==
    [panic |-> FALSE,
     id |-> KVM_REG_ARM64 \cup register_size \cup KVM_REG_ARM_CORE
                \cup Bits(reg_offset \div 4)]

(***************************************************************************)
(* impl From<Arm64CoreRegs> for u64.                                       *)
(***************************************************************************)
\* mutant: KvmSpEl1 takes the offset of the user stack pointer
From_sp_el1_as_sp(elem) ==
    CASE elem.tag = "KvmSpEl1" ->
            RegId(KVM_REG_SIZE_U64, offset_of_nested("regs", user_pt_regs, "sp"))
      [] elem.tag = "KvmElrEl1" ->
            RegId(KVM_REG_SIZE_U64, offset_of(kvm_regs, "elr_el1"))
      [] elem.tag = "KvmSpsr" /\ elem.idx < KVM_NR_SPSR ->
            RegId(KVM_REG_SIZE_U64, offset_of(kvm_regs, "spsr") + elem.idx * 8)
      [] elem.tag = "UserPTRegRegs" /\ elem.idx < 31 ->
            RegId(KVM_REG_SIZE_U64,
                  offset_of_nested("regs", user_pt_regs, "regs") + elem.idx * 8)
      [] elem.tag = "UserPTRegSp" ->
            RegId(KVM_REG_SIZE_U64, offset_of_nested("regs", user_pt_regs, "sp"))
      [] elem.tag = "UserPTRegPc" ->
            RegId(KVM_REG_SIZE_U64, offset_of_nested("regs", user_pt_regs, "pc"))
      [] elem.tag = "UserPTRegPState" ->
            RegId(KVM_REG_SIZE_U64, offset_of_nested("regs", user_pt_regs, "pstate"))
      [] elem.tag = "UserFPSIMDStateVregs" /\ elem.idx < 32 ->
            RegId(KVM_REG_SIZE_U128,
                  offset_of_nested("fp_regs", user_fpsimd_state, "vregs")
                      + elem.idx * 16)
      [] elem.tag = "UserFPSIMDStateFpsr" ->
            RegId(KVM_REG_SIZE_U32,
                  offset_of_nested("fp_regs", user_fpsimd_state, "fpsr"))
      [] elem.tag = "UserFPSIMDStateFpcr" ->
            RegId(KVM_REG_SIZE_U32,
                  offset_of_nested("fp_regs", user_fpsimd_state, "fpcr"))
      [] OTHER -> Panic

\* mutant: the index guards are off by one (idx <= count)
From_guard_off_by_one(elem) ==
    CASE elem.tag = "KvmSpEl1" ->
            RegId(KVM_REG_SIZE_U64, offset_of(kvm_regs, "sp_el1"))
      [] elem.tag = "KvmElrEl1" ->
            RegId(KVM_REG_SIZE_U64, offset_of(kvm_regs, "elr_el1"))
      [] elem.tag = "KvmSpsr" /\ elem.idx <= KVM_NR_SPSR ->
            RegId(KVM_REG_SIZE_U64, offset_of(kvm_regs, "spsr") + elem.idx * 8)
      [] elem.tag = "UserPTRegRegs" /\ elem.idx <= 31 ->
            RegId(KVM_REG_SIZE_U64,
                  offset_of_nested("regs", user_pt_regs, "regs") + elem.idx * 8)
      [] elem.tag = "UserPTRegSp" ->
            RegId(KVM_REG_SIZE_U64, offset_of_nested("regs", user_pt_regs, "sp"))
      [] elem.tag = "UserPTRegPc" ->
            RegId(KVM_REG_SIZE_U64, offset_of_nested("regs", user_pt_regs, "pc"))
      [] elem.tag = "UserPTRegPState" ->
            RegId(KVM_REG_SIZE_U64, offset_of_nested("regs", user_pt_regs, "pstate"))
      [] elem.tag = "UserFPSIMDStateVregs" /\ elem.idx <= 32 ->
            RegId(KVM_REG_SIZE_U128,
                  offset_of_nested("fp_regs", user_fpsimd_state, "vregs")
                      + elem.idx * 16)
      [] elem.tag = "UserFPSIMDStateFpsr" ->
            RegId(KVM_REG_SIZE_U32,
                  offset_of_nested("fp_regs", user_fpsimd_state, "fpsr"))
      [] elem.tag = "UserFPSIMDStateFpcr" ->
            RegId(KVM_REG_SIZE_U32,
                  offset_of_nested("fp_regs", user_fpsimd_state, "fpcr"))
      [] OTHER -> Panic

From(elem) ==
    CASE elem.tag = "KvmSpEl1" ->
            RegId(KVM_REG_SIZE_U64, offset_of(kvm_regs, "sp_el1"))
      [] elem.tag = "KvmElrEl1" ->
            RegId(KVM_REG_SIZE_U64, offset_of(kvm_regs, "elr_el1"))
      [] elem.tag = "KvmSpsr" /\ elem.idx < KVM_NR_SPSR ->
            RegId(KVM_REG_SIZE_U64, offset_of(kvm_regs, "spsr") + elem.idx * 8)
      [] elem.tag = "UserPTRegRegs" /\ elem.idx < 31 ->
            RegId(KVM_REG_SIZE_U64,
                  offset_of_nested("regs", user_pt_regs, "regs") + elem.idx * 8)
      [] elem.tag = "UserPTRegSp" ->
            RegId(KVM_REG_SIZE_U64, offset_of_nested("regs", user_pt_regs, "sp"))
      [] elem.tag = "UserPTRegPc" ->
            RegId(KVM_REG_SIZE_U64, offset_of_nested("regs", user_pt_regs, "pc"))
      [] elem.tag = "UserPTRegPState" ->
            RegId(KVM_REG_SIZE_U64, offset_of_nested("regs", user_pt_regs, "pstate"))
      [] elem.tag = "UserFPSIMDStateVregs" /\ elem.idx < 32 ->
            RegId(KVM_REG_SIZE_U128,
                  offset_of_nested("fp_regs", user_fpsimd_state, "vregs")
                      + elem.idx * 16)
      [] elem.tag = "UserFPSIMDStateFpsr" ->
            RegId(KVM_REG_SIZE_U32,
                  offset_of_nested("fp_regs", user_fpsimd_state, "fpsr"))
      [] elem.tag = "UserFPSIMDStateFpcr" ->
            RegId(KVM_REG_SIZE_U32,
                  offset_of_nested("fp_regs", user_fpsimd_state, "fpcr"))
      [] OTHER -> Panic

(***************************************************************************)
(* KVM's side of KVM_GET_ONE_REG / KVM_SET_ONE_REG: the vcpu keeps one     *)
(* value per core register id of the kvm_regs layout, as wide as the id's  *)
(* size tag says.  An access fails for an id KVM does not know or for one  *)
(* whose access currently fails.                                           *)
(***************************************************************************)
KvmRegTable ==
    {<<KVM_REG_SIZE_U64, 8 * i>> :
        i \in 0..((offset_of(kvm_regs, "spsr") \div 8) + KVM_NR_SPSR - 1)}
    \cup {<<KVM_REG_SIZE_U128, offset_of(kvm_regs, "fp_regs") + 16 * i>> :
        i \in 0..31}
    \cup {<<KVM_REG_SIZE_U32, offset_of(kvm_regs, "fp_regs") + 512>>,
          <<KVM_REG_SIZE_U32, offset_of(kvm_regs, "fp_regs") + 516>>}

KvmRegIds == {RegId(e[1], e[2]).id : e \in KvmRegTable}

RegWidth(id) ==
    LET size == {b \in id : b >= 52 /\ b <= 55}
    IN  CASE size = KVM_REG_SIZE_U32 -> 32
          [] size = KVM_REG_SIZE_U64 -> 64
          [] size = KVM_REG_SIZE_U128 -> 128
          [] OTHER -> 0

\* a narrowing cast: the low `width` bits
Cast(data, width) == {b \in data : b < width}

AccessFails(v, b, id) == id \in b \/ id \notin DOMAIN v

\* vcpu_fd.get_one_reg(id): the register's value, zero-extended to a u128
get_one_reg(v, id) == v[id]

\* vcpu_fd.set_one_reg(id, data): the low bytes of data, as many as the id's size
set_one_reg(v, id, data) == [v EXCEPT ![id] = Cast(data, RegWidth(id))]

(***************************************************************************)
(* struct kvm_regs as a value: one field per register.                     *)
(***************************************************************************)
Field(name, idx) == <<name, idx>>

Fields ==
    {Field("regs.sp", 0), Field("regs.pc", 0), Field("regs.pstate", 0),
     Field("sp_el1", 0), Field("elr_el1", 0),
     Field("fp_regs.fpsr", 0), Field("fp_regs.fpcr", 0)}
    \cup {Field("regs.regs", i) : i \in 0..30}
    \cup {Field("spsr", i) : i \in 0..(KVM_NR_SPSR - 1)}
    \cup {Field("fp_regs.vregs", i) : i \in 0..31}

\* kvm_regs::default()
DefaultRegs == [f \in Fields |-> {}]

\* no register file at all (the Err of a Result<kvm_regs>)
NoRegs == [f \in {} |-> {}]

Step(name, idx, reg, width) == [field |-> Field(name, idx), reg |-> reg, width |-> width]

(***************************************************************************)
(* get_core_regs: the reads in program order, each `?` returning at the    *)
(* first failure.  `width` is the cast applied to the u128 read.           *)
(***************************************************************************)
GetSteps ==
    << Step("regs.sp", 0, UserPTRegSp, 64),
       Step("sp_el1", 0, KvmSpEl1, 64),
       Step("regs.pstate", 0, UserPTRegPState, 64),
       Step("regs.pc", 0, UserPTRegPc, 64),
       Step("elr_el1", 0, KvmElrEl1, 64) >>
    \o [i \in 1..KVM_NR_REGS |-> Step("regs.regs", i - 1, UserPTRegRegs(i - 1), 64)]
    \o [i \in 1..KVM_NR_SPSR |-> Step("spsr", i - 1, KvmSpsr(i - 1), 64)]
    \o [i \in 1..KVM_NR_FP_REGS |->
            Step("fp_regs.vregs", i - 1, UserFPSIMDStateVregs(i - 1), 128)]
    \o << Step("fp_regs.fpsr", 0, UserFPSIMDStateFpsr, 32),
          Step("fp_regs.fpcr", 0, UserFPSIMDStateFpcr, 32) >>

Access(kind, id) == [kind |-> kind, id |-> id]

\* the ids the steps access, and the first step whose access fails (0: none)
StepIds(steps) == [i \in 1..Len(steps) |-> From(steps[i].reg).id]

Last(S) == CHOOSE i \in S : \A j \in S : j <= i

FirstFailure(ids, v, b) ==
    LET failing == {i \in 1..Len(ids) : AccessFails(v, b, ids[i])}
    IN  IF failing = {} THEN 0 ELSE CHOOSE i \in failing : \A j \in failing : i <= j

\* core_regs after the reads of steps 1..n: a field holds what its last read
\* assigned, or its default
RegsRead(steps, ids, n, v) ==
    [f \in Fields |->
        LET reads == {i \in 1..n : steps[i].field = f}
        IN  IF reads = {}
            THEN DefaultRegs[f]
            ELSE Cast(get_one_reg(v, ids[Last(reads)]), steps[Last(reads)].width)]

GetRun(steps, ids, v, b) ==
    LET k == FirstFailure(ids, v, b)
    IN  IF k = 0
        THEN [ret |-> Ok, file |-> RegsRead(steps, ids, Len(steps), v),
              trace |-> [i \in 1..Len(steps) |-> Access("get", ids[i])], vcpu |-> v]
        ELSE [ret |-> Err, file |-> NoRegs,
              trace |-> [i \in 1..k |-> Access("get", ids[i])], vcpu |-> v]

GetStepIds == StepIds(GetSteps)

\* mutant: on a failed read the partly filled register file is returned
get_core_regs_partial(v, b) ==
    LET ids == GetStepIds
        k == FirstFailure(ids, v, b)
    IN  IF k = 0
        THEN GetRun(GetSteps, ids, v, b)
        ELSE [ret |-> Err, file |-> RegsRead(GetSteps, ids, k - 1, v),
              trace |-> [i \in 1..k |-> Access("get", ids[i])], vcpu |-> v]

\* mutant: the vector registers are narrowed to 64 bits like the scalar ones
get_core_regs_narrow(v, b) ==
    GetRun([i \in 1..Len(GetSteps) |-> [GetSteps[i] EXCEPT !.width = 64]],
           GetStepIds, v, b)

get_core_regs(v, b) == GetRun(GetSteps, GetStepIds, v, b)

(***************************************************************************)
(* set_core_regs: the writes in program order, each `?` returning at the   *)
(* first failure; what was written stays written.                          *)
(***************************************************************************)
\* mutant: pc is written before pstate
SetSteps_pc_first ==
    << Step("regs.sp", 0, UserPTRegSp, 128),
       Step("sp_el1", 0, KvmSpEl1, 128),
       Step("regs.pc", 0, UserPTRegPc, 128),
       Step("regs.pstate", 0, UserPTRegPState, 128),
       Step("elr_el1", 0, KvmElrEl1, 128) >>
    \o [i \in 1..KVM_NR_REGS |-> Step("regs.regs", i - 1, UserPTRegRegs(i - 1), 128)]
    \o [i \in 1..KVM_NR_SPSR |-> Step("spsr", i - 1, KvmSpsr(i - 1), 128)]
    \o [i \in 1..KVM_NR_FP_REGS |->
            Step("fp_regs.vregs", i - 1, UserFPSIMDStateVregs(i - 1), 128)]
    \o << Step("fp_regs.fpsr", 0, UserFPSIMDStateFpsr, 128),
          Step("fp_regs.fpcr", 0, UserFPSIMDStateFpcr, 128) >>

SetSteps ==
    << Step("regs.sp", 0, UserPTRegSp, 128),
       Step("sp_el1", 0, KvmSpEl1, 128),
       Step("regs.pstate", 0, UserPTRegPState, 128),
       Step("regs.pc", 0, UserPTRegPc, 128),
       Step("elr_el1", 0, KvmElrEl1, 128) >>
    \o [i \in 1..KVM_NR_REGS |-> Step("regs.regs", i - 1, UserPTRegRegs(i - 1), 128)]
    \o [i \in 1..KVM_NR_SPSR |-> Step("spsr", i - 1, KvmSpsr(i - 1), 128)]
    \o [i \in 1..KVM_NR_FP_REGS |->
            Step("fp_regs.vregs", i - 1, UserFPSIMDStateVregs(i - 1), 128)]
    \o << Step("fp_regs.fpsr", 0, UserFPSIMDStateFpsr, 128),
          Step("fp_regs.fpcr", 0, UserFPSIMDStateFpcr, 128) >>

\* the vcpu after the writes of the steps in `written`: a register holds what
\* its last write stored, or what it held before
RegsWritten(steps, ids, written, v, core_regs) ==
    [id \in DOMAIN v |->
        LET writes == {i \in written : ids[i] = id}
        IN  IF writes = {}
            THEN v[id]
            ELSE set_one_reg(v, id, Cast(core_regs[steps[Last(writes)].field],
                                         steps[Last(writes)].width))[id]]

SetRun(steps, ids, v, b, core_regs) ==
    LET k == FirstFailure(ids, v, b)
    IN  IF k = 0
        THEN [ret |-> Ok,
              trace |-> [i \in 1..Len(steps) |-> Access("set", ids[i])],
              vcpu |-> RegsWritten(steps, ids, 1..Len(steps), v, core_regs)]
        ELSE [ret |-> Err,
              trace |-> [i \in 1..k |-> Access("set", ids[i])],
              vcpu |-> RegsWritten(steps, ids, 1..(k - 1), v, core_regs)]

SetStepIds == StepIds(SetSteps)

\* mutant: a failed write is remembered and the remaining registers are
\* still written
set_core_regs_continue(v, b, core_regs) ==
    LET ids == SetStepIds
        k == FirstFailure(ids, v, b)
    IN  IF k = 0
        THEN SetRun(SetSteps, ids, v, b, core_regs)
        ELSE [ret |-> Err,
              trace |-> [i \in 1..Len(SetSteps) |-> Access("set", ids[i])],
              vcpu |-> RegsWritten(SetSteps, ids,
                                   {i \in 1..Len(SetSteps) : ~AccessFails(v, b, ids[i])},
                                   v, core_regs)]

set_core_regs(v, b, core_regs) == SetRun(SetSteps, SetStepIds, v, b, core_regs)

(***************************************************************************)
(* The encoder applied to pairs of variants, in and out of range.          *)
(***************************************************************************)
\* the highest index an index-bearing variant is tried with
MaxIndex == 33

\* indices that would land on a valid register if they were truncated to 8
\* or 16 bits
WrapIndexes == {2 ^ 8 + 4, 2 ^ 16 + 30}

Indexes == (0..MaxIndex) \cup WrapIndexes

Variants ==
    {KvmSpEl1, KvmElrEl1, UserPTRegSp, UserPTRegPc, UserPTRegPState,
     UserFPSIMDStateFpsr, UserFPSIMDStateFpcr}
        \cup {KvmSpsr(i) : i \in Indexes}
        \cup {UserPTRegRegs(i) : i \in Indexes}
        \cup {UserFPSIMDStateVregs(i) : i \in Indexes}

OrdIdle == [step |-> 0]
EncIdle == [step |-> 0]
CfgIdle == [step |-> 0]
NetIdle == [step |-> 0]
ConfIdle == cfg = CfgIdle /\ net = NetIdle
RegIdle ==
    /\ vcpu = [id \in {} |-> {}]
    /\ bad = {}
    /\ call = [op |-> "none"]
    /\ rt = [stage |-> 0]

Init == DevInit /\ ord = OrdIdle /\ enc = EncIdle /\ RegIdle /\ ConfIdle

Next ==
    \/ Realize
    \/ Unrealize
    \/ Deactivate
    \/ \E dev_config \in {"None", "Some"} : UpdateConfig(dev_config)
    \/ Acknowledge
    \/ Driver
    \/ FeaturesOk
    \/ DriverOk
    \/ Fail
    \/ Reset
    \/ \E page \in Pages, value \in OfferedValues : Checked(page, value)
    \/ \E page \in Pages, value \in OfferedValues : Negotiate(page, value)

(***************************************************************************)
(* Register capture and restore on a paused vcpu.                          *)
(***************************************************************************)
\* the number of register value patterns the vcpu and the files are drawn from
NumPatterns == 2

\* the value of pattern p for the register at 32-bit slot k, w bits wide:
\* distinct per register, and from pattern 2 on with a bit at the top of the
\* register's width
Val(p, k, w) == Bits(k * p) \cup (IF p > 1 THEN {w - p + 1} ELSE {})

PatternVcpus ==
    [p \in 1..NumPatterns |->
        [id \in KvmRegIds |->
            LET e == CHOOSE e \in KvmRegTable : RegId(e[1], e[2]).id = id
            IN  Val(p, (e[2] \div 4) + 1, RegWidth(id))]]

PatternVcpu(p) == PatternVcpus[p]

FieldOffset(f) ==
    CASE f[1] = "regs.regs" -> offset_of_nested("regs", user_pt_regs, "regs") + 8 * f[2]
      [] f[1] = "regs.sp" -> offset_of_nested("regs", user_pt_regs, "sp")
      [] f[1] = "regs.pc" -> offset_of_nested("regs", user_pt_regs, "pc")
      [] f[1] = "regs.pstate" -> offset_of_nested("regs", user_pt_regs, "pstate")
      [] f[1] = "sp_el1" -> offset_of(kvm_regs, "sp_el1")
      [] f[1] = "elr_el1" -> offset_of(kvm_regs, "elr_el1")
      [] f[1] = "spsr" -> offset_of(kvm_regs, "spsr") + 8 * f[2]
      [] f[1] = "fp_regs.vregs" ->
            offset_of_nested("fp_regs", user_fpsimd_state, "vregs") + 16 * f[2]
      [] f[1] = "fp_regs.fpsr" -> offset_of_nested("fp_regs", user_fpsimd_state, "fpsr")
      [] f[1] = "fp_regs.fpcr" -> offset_of_nested("fp_regs", user_fpsimd_state, "fpcr")

\* the width of a field's type: u128 vregs, u32 fpsr and fpcr, u64 the rest
FieldWidth(f) ==
    CASE f[1] = "fp_regs.vregs" -> 128
      [] f[1] \in {"fp_regs.fpsr", "fp_regs.fpcr"} -> 32
      [] OTHER -> 64

PatternFiles ==
    [p \in 1..NumPatterns |->
        [f \in Fields |-> Val(p, (FieldOffset(f) \div 4) + 1, FieldWidth(f))]]

PatternRegs(p) == PatternFiles[p]

NoRegCall == [op |-> "none", ret |-> Ok, file |-> NoRegs, trace |-> <<>>,
              pre_vcpu |-> [id \in {} |-> {}], pre_bad |-> {}]

NoRoundTrip == [stage |-> 0, file |-> NoRegs, vcpu |-> [id \in {} |-> {}]]

RegInit ==
    /\ vcpu \in {PatternVcpu(p) : p \in 1..NumPatterns}
    /\ bad \in {{}} \cup {{id} : id \in KvmRegIds}
    /\ call = NoRegCall
    /\ rt = NoRoundTrip
    /\ dev = FreshDevice(<<{}, {}>>)
    /\ status = 0
    /\ activate_calls = 0
    /\ ConfIdle
    /\ status_trace = <<>>
    /\ last = NoCall
    /\ ord = OrdIdle
    /\ enc = EncIdle

\* capture: get_core_regs on the vcpu
GetCoreRegs ==
    /\ LET r == get_core_regs(vcpu, bad)
       IN  /\ vcpu' = r.vcpu
           /\ call' = [op |-> "get", ret |-> r.ret, file |-> r.file,
                       trace |-> r.trace, pre_vcpu |-> vcpu, pre_bad |-> bad]
           /\ rt' = IF r.ret # Ok THEN NoRoundTrip
                    ELSE IF rt.stage = 2 THEN [rt EXCEPT !.stage = 3]
                    ELSE [stage |-> 1, file |-> r.file, vcpu |-> vcpu]
    /\ UNCHANGED <<bad, devVars, ord, enc, confVars>>

\* restore: set_core_regs with the register file the last capture returned
RestoreCoreRegs ==
    /\ call.op = "get"
    /\ call.ret = Ok
    /\ LET r == set_core_regs(vcpu, bad, call.file)
       IN  /\ vcpu' = r.vcpu
           /\ call' = [op |-> "set", ret |-> r.ret, file |-> call.file,
                       trace |-> r.trace, pre_vcpu |-> vcpu, pre_bad |-> bad]
           /\ rt' = IF r.ret = Ok /\ rt.stage \in {1, 3}
                    THEN [rt EXCEPT !.stage = 2]
                    ELSE NoRoundTrip
    /\ UNCHANGED <<bad, devVars, ord, enc, confVars>>

\* set_core_regs with a register file built by the caller (reset, migration)
SetCoreRegs(p) ==
    /\ LET r == set_core_regs(vcpu, bad, PatternRegs(p))
       IN  /\ vcpu' = r.vcpu
           /\ call' = [op |-> "set", ret |-> r.ret, file |-> PatternRegs(p),
                       trace |-> r.trace, pre_vcpu |-> vcpu, pre_bad |-> bad]
    /\ rt' = NoRoundTrip
    /\ UNCHANGED <<bad, devVars, ord, enc, confVars>>

\* the vcpu executes: its registers change
VcpuRun(p) ==
    /\ vcpu # PatternVcpu(p)
    /\ vcpu' = PatternVcpu(p)
    /\ call' = [NoRegCall EXCEPT !.op = "run"]
    /\ rt' = NoRoundTrip
    /\ UNCHANGED <<bad, devVars, ord, enc, confVars>>

\* the failing register becomes accessible again
Repair ==
    /\ bad # {}
    /\ bad' = {}
    /\ UNCHANGED <<vcpu, call, rt, devVars, ord, enc, confVars>>

RegNext ==
    \/ GetCoreRegs
    \/ RestoreCoreRegs
    \/ \E p \in 1..NumPatterns : SetCoreRegs(p)
    \/ \E p \in 1..NumPatterns : VcpuRun(p)
    \/ Repair

SpecRegs == RegInit /\ [][RegNext]_vars

Spec == Init /\ [][Next]_vars

(***************************************************************************)
(* The encoder specification: two variants are drawn, then encoded.        *)
(***************************************************************************)
EncInit ==
    /\ enc \in {[step |-> 1, a |-> a, b |-> b, ra |-> Panic, rb |-> Panic] :
                    a \in Variants, b \in Variants}
    /\ dev = FreshDevice(<<{}, {}>>)
    /\ status = 0
    /\ activate_calls = 0
    /\ ConfIdle
    /\ status_trace = <<>>
    /\ last = NoCall
    /\ ord = OrdIdle
    /\ RegIdle

Encode ==
    /\ enc.step = 1
    /\ enc' = [enc EXCEPT !.step = 2, !.ra = From(enc.a), !.rb = From(enc.b)]
    /\ UNCHANGED <<devVars, ord, regVars, confVars>>

EncNext == Encode

SpecEnc == EncInit /\ [][EncNext]_vars


(***************************************************************************)
(* The order experiment: two fresh devices of the same variant negotiate   *)
(* page 0 with value a and page 1 with value b, x page 0 first and y       *)
(* page 1 first.                                                           *)
(***************************************************************************)
OrdInit ==
    /\ ord \in {[step |-> 0, a |-> a, b |-> b,
                 x |-> FreshDevice(f), y |-> FreshDevice(f), mx |-> {}, my |-> {}] :
                    a \in OfferedValues, b \in OfferedValues, f \in DeviceFeatureSets}
    /\ dev = FreshDevice(<<{}, {}>>)
    /\ status = 0
    /\ activate_calls = 0
    /\ ConfIdle
    /\ status_trace = <<>>
    /\ last = NoCall
    /\ enc = EncIdle
    /\ RegIdle

NegotiateFirst ==
    /\ ord.step = 0
    /\ LET nx == NegotiationStep(ord.x, 0, ord.a)
           ny == NegotiationStep(ord.y, 1, ord.b)
       IN  ord' = [ord EXCEPT !.step = 1, !.x = nx.dev, !.y = ny.dev,
                               !.mx = nx.mask, !.my = ny.mask]
    /\ UNCHANGED <<devVars, enc, regVars, confVars>>

NegotiateSecond ==
    /\ ord.step = 1
    /\ LET nx == NegotiationStep(ord.x, 1, ord.b)
           ny == NegotiationStep(ord.y, 0, ord.a)
       IN  ord' = [ord EXCEPT !.step = 2, !.x = nx.dev, !.y = ny.dev,
                               !.mx = nx.mask, !.my = ny.mask]
    /\ UNCHANGED <<devVars, enc, regVars, confVars>>

OrdNext == NegotiateFirst \/ NegotiateSecond

SpecOrder == OrdInit /\ [][OrdNext]_vars

(***************************************************************************)
(* The device configuration space: read_config and write_config of a       *)
(* variant.  The trait only declares them; a variant keeps a configuration *)
(* structure of ConfigLen bytes and checks every access against it.        *)
(***************************************************************************)
\* the size in bytes of the configuration structure of the variant modelled
ConfigLen == 16

\* the configuration structure as the device builds it: byte i holds i
FreshConfig == [i \in 1..ConfigLen |-> i]

\* a buffer of len bytes, each holding byte
Buffer(len, byte) == [i \in 1..len |-> byte]

\* the offsets and buffer lengths the guest tries
OffsetsTried ==
    {0, 4, ConfigLen - 4, ConfigLen - 3, ConfigLen - 1, ConfigLen, ConfigLen + 1, 100}
LengthsTried == {0, 1, 4, 8}

\* what the caller's read buffer holds before the call, and what it writes
BufferFill == 255
WriteFill == 170

\* [offset, offset + len) lies within the configuration structure
InConfig(config, offset, len) == offset + len <= Len(config)

\* mutant: an access that runs past the end is cut at the end
read_config_truncating(config, offset, data) ==
    IF offset >= Len(config)
    THEN [ret |-> Err, data |-> data]
    ELSE [ret |-> Ok,
          data |-> [i \in 1..Len(data) |->
                       IF offset + i <= Len(config) THEN config[offset + i]
                                                    ELSE data[i]]]

read_config(config, offset, data) ==
    IF ~InConfig(config, offset, Len(data))
    THEN [ret |-> Err, data |-> data]
    ELSE [ret |-> Ok, data |-> [i \in 1..Len(data) |-> config[offset + i]]]

write_config(config, offset, data) ==
    IF ~InConfig(config, offset, Len(data))
    THEN [ret |-> Err, config |-> config]
    ELSE [ret |-> Ok,
          config |-> [i \in 1..Len(config) |->
                         IF i > offset /\ i <= offset + Len(data)
                         THEN data[i - offset]
                         ELSE config[i]]]

CfgInit ==
    /\ cfg = [step |-> 1, config |-> FreshConfig, op |-> "none", offset |-> 0,
              ret |-> Ok, buf |-> <<>>, data |-> <<>>, pre_config |-> FreshConfig]
    /\ net = NetIdle
    /\ dev = FreshDevice(<<{}, {}>>)
    /\ status = 0
    /\ activate_calls = 0
    /\ status_trace = <<>>
    /\ last = NoCall
    /\ ord = OrdIdle
    /\ enc = EncIdle
    /\ RegIdle

\* the guest reads len bytes at offset into a buffer
ReadConfig(offset, len) ==
    /\ cfg.step = 1
    /\ LET buf == Buffer(len, BufferFill)
           r == read_config(cfg.config, offset, buf)
       IN  cfg' = [cfg EXCEPT !.op = "read", !.offset = offset, !.ret = r.ret,
                              !.buf = buf, !.data = r.data,
                              !.pre_config = cfg.config]
    /\ UNCHANGED <<devVars, ord, enc, regVars, net>>

\* the guest writes len bytes at offset
WriteConfig(offset, len) ==
    /\ cfg.step = 1
    /\ LET buf == Buffer(len, WriteFill)
           r == write_config(cfg.config, offset, buf)
       IN  cfg' = [cfg EXCEPT !.op = "write", !.offset = offset, !.ret = r.ret,
                              !.buf = buf, !.data = buf,
                              !.config = r.config, !.pre_config = cfg.config]
    /\ UNCHANGED <<devVars, ord, enc, regVars, net>>

CfgNext ==
    \/ \E offset \in OffsetsTried, len \in LengthsTried : ReadConfig(offset, len)
    \/ \E offset \in OffsetsTried, len \in LengthsTried : WriteConfig(offset, len)

SpecConfig == CfgInit /\ [][CfgNext]_vars

(***************************************************************************)
(* machine_manager/src/config/network.rs.  A string is the sequence of its *)
(* characters; an Option is None or Some(x); a Result carries ret, the     *)
(* error kind and the value.                                               *)
(***************************************************************************)
MAX_STRING_LENGTH == 255
MAC_ADDRESS_LENGTH == 17

None == [some |-> FALSE]
Some(x) == [some |-> TRUE, v |-> x]

NetOk(v) == [ret |-> Ok, err |-> "", v |-> v]
NetErr(kind) == [ret |-> Err, err |-> kind, v |-> None]

\* the strings the command lines below are made of
Str_eth0 == <<"e", "t", "h", "0">>
Str_eth1 == <<"e", "t", "h", "1">>
Str_eth2 == <<"e", "t", "h", "2">>
Str_net0 == <<"n", "e", "t", "0">>
Str_net1 == <<"n", "e", "t", "1">>
Str_iothread0 == <<"i", "o", "t", "h", "r", "e", "a", "d", "0">>
Str_on == <<"o", "n">>
Str_off == <<"o", "f", "f">>
Str_maybe == <<"m", "a", "y", "b", "e">>
Str_3 == <<"3">>
Str_4 == <<"4">>
Str_x == <<"x">>
Str_vhost_kernel == <<"v", "h", "o", "s", "t", "-", "k", "e", "r", "n", "e", "l">>
\* 12:34:56:78:9A:BC
Str_mac == <<"1", "2", ":", "3", "4", ":", "5", "6", ":", "7", "8", ":",
             "9", "A", ":", "B", "C">>
\* 12:34:56:78:9A:BG, a character that is no hex digit
Str_mac_nothex == <<"1", "2", ":", "3", "4", ":", "5", "6", ":", "7", "8", ":",
                    "9", "A", ":", "B", "G">>
\* 123:4:56:78:9A:BC, six parts and 17 characters but parts of three and one
Str_mac_uneven == <<"1", "2", "3", ":", "4", ":", "5", "6", ":", "7", "8", ":",
                    "9", "A", ":", "B", "C">>
\* a string one character longer than MAX_STRING_LENGTH
Str_long == [i \in 1..(MAX_STRING_LENGTH + 1) |-> "x"]

(***************************************************************************)
(* CmdParser, as network.rs uses it: a parsed command line gives, for each *)
(* key, the text after `key=`, or nothing when the key is not there;       *)
(* get_value::<T> converts the text to T and fails when it cannot.         *)
(***************************************************************************)
Cmd(malformed, fields) == [malformed |-> malformed, fields |-> fields]

get_value_String(cmd, key) ==
    IF key \in DOMAIN cmd.fields THEN NetOk(Some(cmd.fields[key]))
                                 ELSE NetOk(None)

get_value_ExBool(cmd, key) ==
    IF key \notin DOMAIN cmd.fields THEN NetOk(None)
    ELSE IF cmd.fields[key] = Str_on THEN NetOk(Some(TRUE))
    ELSE IF cmd.fields[key] = Str_off THEN NetOk(Some(FALSE))
    ELSE NetErr("ConvertValueFailed")

Digits == [c \in {"0", "1", "2", "3", "4", "5", "6", "7", "8", "9"} |->
              CASE c = "0" -> 0 [] c = "1" -> 1 [] c = "2" -> 2 [] c = "3" -> 3
                [] c = "4" -> 4 [] c = "5" -> 5 [] c = "6" -> 6 [] c = "7" -> 7
                [] c = "8" -> 8 [] c = "9" -> 9]

RECURSIVE DecimalValue(_)
DecimalValue(text) ==
    IF text = <<>> THEN 0
    ELSE 10 * DecimalValue(SubSeq(text, 1, Len(text) - 1)) + Digits[text[Len(text)]]

get_value_i32(cmd, key) ==
    IF key \notin DOMAIN cmd.fields THEN NetOk(None)
    ELSE LET text == cmd.fields[key]
         IN  IF text # <<>> /\ \A i \in 1..Len(text) : text[i] \in DOMAIN Digits
             THEN NetOk(Some(DecimalValue(text)))
             ELSE NetErr("ConvertValueFailed")

(***************************************************************************)
(* NetDevcfg, NetworkInterfaceConfig and their checks.                     *)
(***************************************************************************)
NetDevcfg_default ==
    [id |-> <<>>, mac |-> None, tap_fd |-> None, vhost_type |-> None,
     vhost_fd |-> None]

NetworkInterfaceConfig_default ==
    [id |-> <<>>, host_dev_name |-> <<>>, mac |-> None, tap_fd |-> None,
     vhost_type |-> None, vhost_fd |-> None, iothread |-> None]

HexDigits == {"0", "1", "2", "3", "4", "5", "6", "7", "8", "9",
              "a", "b", "c", "d", "e", "f", "A", "B", "C", "D", "E", "F"}

\* mac.split(':'): the parts as [from, to] positions, `to` below `from` for
\* an empty part
Split(mac) ==
    LET colons == {i \in 1..Len(mac) : mac[i] = ":"}
        starts == {1} \cup {c + 1 : c \in colons}
        stop(from) == CHOOSE c \in colons \cup {Len(mac) + 1} :
                         /\ c >= from
                         /\ \A d \in colons \cup {Len(mac) + 1} : d >= from => c <= d
    IN  {[from |-> from, to |-> stop(from) - 1] : from \in starts}

check_mac_address(mac) ==
    IF Len(mac) # MAC_ADDRESS_LENGTH THEN FALSE
    ELSE IF Cardinality(Split(mac)) # 6 THEN FALSE
    ELSE \A mac_bit \in Split(mac) :
            /\ mac_bit.to - mac_bit.from + 1 = 2
            /\ mac[mac_bit.from] \in HexDigits
            /\ mac[mac_bit.from + 1] \in HexDigits

\* impl ConfigCheck for NetworkInterfaceConfig
check(self) ==
    IF Len(self.id) > MAX_STRING_LENGTH THEN NetErr("StringLengthTooLong")
    ELSE IF Len(self.host_dev_name) > MAX_STRING_LENGTH
    THEN NetErr("StringLengthTooLong")
    ELSE IF self.mac.some /\ ~check_mac_address(self.mac.v)
    THEN NetErr("MacFormatError")
    ELSE IF self.vhost_type.some /\ self.vhost_type.v # Str_vhost_kernel
    THEN NetErr("UnknownVhostType")
    ELSE IF self.iothread.some /\ Len(self.iothread.v) > MAX_STRING_LENGTH
    THEN NetErr("StringLengthTooLong")
    ELSE NetOk(TRUE)

parse_netdev(cmd_parser) ==
    LET net_id == get_value_String(cmd_parser, "id")
        vhost == get_value_ExBool(cmd_parser, "vhost")
        mac == get_value_String(cmd_parser, "mac")
        fds == get_value_i32(cmd_parser, "fds")
        vhostfds == get_value_i32(cmd_parser, "vhostfds")
    IN  IF ~net_id.v.some THEN NetErr("FieldIsMissing")
        ELSE IF vhost.ret = Err THEN vhost
        ELSE IF fds.ret = Err THEN fds
        ELSE IF vhostfds.ret = Err THEN vhostfds
        ELSE NetOk([NetDevcfg_default EXCEPT
                       !.id = net_id.v.v,
                       !.vhost_type = IF vhost.v.some /\ vhost.v.v
                                      THEN Some(Str_vhost_kernel)
                                      ELSE None,
                       !.mac = mac.v,
                       !.tap_fd = fds.v,
                       !.vhost_fd = vhostfds.v])

\* mutant: a net device naming an unknown netdev gets a configuration anyway
parse_net_unchecked(vm_config, net_config) ==
    IF net_config.malformed THEN NetErr("parse")
    ELSE LET netdev == get_value_String(net_config, "netdev").v
             id == get_value_String(net_config, "id").v
             netid == IF id.some THEN id.v ELSE <<>>
             iothread == get_value_String(net_config, "iothread").v
         IN  IF ~netdev.some THEN NetErr("FieldIsMissing")
             ELSE LET cfg0 == [NetworkInterfaceConfig_default EXCEPT
                                  !.iothread = iothread, !.id = netid,
                                  !.host_dev_name = netdev.v]
                  IN  IF check(cfg0).ret = Err THEN check(cfg0) ELSE NetOk(cfg0)

parse_net(vm_config, net_config) ==
    IF net_config.malformed THEN NetErr("parse")
    ELSE LET netdev == get_value_String(net_config, "netdev").v
             id == get_value_String(net_config, "id").v
             netid == IF id.some THEN id.v ELSE <<>>
             iothread == get_value_String(net_config, "iothread").v
             netconfig == vm_config.netdevs
         IN  IF ~netdev.some THEN NetErr("FieldIsMissing")
             ELSE IF ~netconfig.some
             THEN NetErr("No netdev configuration for net device found")
             ELSE IF netdev.v \in DOMAIN netconfig.v
             THEN LET netcfg == netconfig.v[netdev.v]
                      netdevinterfacecfg ==
                          [NetworkInterfaceConfig_default EXCEPT
                              !.iothread = iothread,
                              !.id = netid,
                              !.host_dev_name = netcfg.id,
                              !.mac = netcfg.mac,
                              !.tap_fd = netcfg.tap_fd,
                              !.vhost_fd = netcfg.vhost_fd,
                              !.vhost_type = netcfg.vhost_type]
                  IN  IF check(netdevinterfacecfg).ret = Err
                      THEN check(netdevinterfacecfg)
                      ELSE NetOk(netdevinterfacecfg)
             ELSE NetErr("Netdev not found for net device")

\* VmConfig::add_netdev: the result, with the VmConfig it leaves
add_netdev(self, netdev_config) ==
    IF netdev_config.malformed
    THEN [ret |-> Err, err |-> "parse", vm_config |-> self]
    ELSE LET drive_cfg == parse_netdev(netdev_config)
         IN  IF drive_cfg.ret = Err
             THEN [ret |-> Err, err |-> drive_cfg.err, vm_config |-> self]
             ELSE LET netdevs == IF self.netdevs.some THEN self.netdevs.v
                                 ELSE [k \in {} |-> NetDevcfg_default]
                      netdev_id == drive_cfg.v.id
                  IN  IF netdev_id \notin DOMAIN netdevs
                      THEN [ret |-> Ok, err |-> "",
                            vm_config |-> [self EXCEPT !.netdevs =
                                Some((netdev_id :> drive_cfg.v) @@ netdevs)]]
                      ELSE [ret |-> Err, err |-> "Netdev has been added",
                            vm_config |-> [self EXCEPT !.netdevs = Some(netdevs)]]

(***************************************************************************)
(* The command lines the VM is configured with.                            *)
(***************************************************************************)
\* -netdev command lines handed to add_netdev
NetdevConfigs ==
    { Cmd(FALSE, "id" :> Str_eth0),
      Cmd(FALSE, ("id" :> Str_eth1) @@ ("mac" :> Str_mac) @@ ("vhost" :> Str_on)
                     @@ ("vhostfds" :> Str_4)),
      Cmd(FALSE, ("id" :> Str_eth1) @@ ("vhost" :> Str_off) @@ ("fds" :> Str_3)),
      Cmd(FALSE, ("id" :> Str_eth0) @@ ("mac" :> Str_mac) @@ ("fds" :> Str_3)),
      Cmd(FALSE, ("id" :> Str_eth2) @@ ("mac" :> Str_mac_nothex)),
      Cmd(FALSE, ("id" :> Str_eth2) @@ ("mac" :> Str_mac_uneven) @@ ("vhost" :> Str_on)),
      Cmd(FALSE, "vhost" :> Str_on),
      Cmd(FALSE, ("id" :> Str_eth2) @@ ("vhost" :> Str_maybe)),
      Cmd(FALSE, ("id" :> Str_eth2) @@ ("fds" :> Str_x)),
      Cmd(FALSE, "id" :> Str_long),
      Cmd(TRUE, "id" :> Str_eth2) }

\* -device virtio-net-device command lines handed to parse_net
NetConfigs ==
    { Cmd(FALSE, ("id" :> Str_net0) @@ ("netdev" :> Str_eth0)
                     @@ ("iothread" :> Str_iothread0)),
      Cmd(FALSE, ("id" :> Str_net1) @@ ("netdev" :> Str_eth1)),
      Cmd(FALSE, ("id" :> Str_net1) @@ ("netdev" :> Str_eth2)),
      Cmd(FALSE, "netdev" :> Str_eth0),
      Cmd(FALSE, "id" :> Str_net0),
      Cmd(FALSE, ("id" :> Str_long) @@ ("netdev" :> Str_eth0)),
      Cmd(FALSE, ("id" :> Str_net0) @@ ("netdev" :> Str_eth0)
                     @@ ("iothread" :> Str_long)),
      Cmd(FALSE, ("id" :> Str_net0) @@ ("netdev" :> Str_long)),
      Cmd(FALSE, ("id" :> Str_net0) @@ ("netdev" :> Str_eth1)
                     @@ ("mac" :> Str_mac_nothex) @@ ("vhost" :> Str_off)
                     @@ ("fds" :> Str_3)),
      Cmd(TRUE, ("id" :> Str_net0) @@ ("netdev" :> Str_eth0)) }

\* VmConfig::default(): no netdev table yet
VmConfig_default == [netdevs |-> None]

NoCmd == Cmd(FALSE, [k \in {} |-> <<>>])

NetInit ==
    /\ net = [step |-> 1, vm_config |-> VmConfig_default,
              registered |-> [k \in {} |-> NoCmd],
              op |-> "none", cmd |-> NoCmd, ret |-> Ok, err |-> "",
              out |-> NetworkInterfaceConfig_default]
    /\ cfg = CfgIdle
    /\ dev = FreshDevice(<<{}, {}>>)
    /\ status = 0
    /\ activate_calls = 0
    /\ status_trace = <<>>
    /\ last = NoCall
    /\ ord = OrdIdle
    /\ enc = EncIdle
    /\ RegIdle

\* one -netdev option is registered; `registered` remembers, per netdev id,
\* the command line add_netdev accepted for it
AddNetdev(netdev_config) ==
    /\ net.step = 1
    /\ LET r == add_netdev(net.vm_config, netdev_config)
       IN  net' = [net EXCEPT
                      !.vm_config = r.vm_config,
                      !.registered =
                          IF r.ret = Ok
                          THEN (netdev_config.fields["id"] :> netdev_config) @@ @
                          ELSE @,
                      !.op = "add_netdev", !.cmd = netdev_config,
                      !.ret = r.ret, !.err = r.err,
                      !.out = NetworkInterfaceConfig_default]
    /\ UNCHANGED <<devVars, ord, enc, regVars, cfg>>

\* one -device virtio-net-device option is resolved against the table
ParseNet(net_config) ==
    /\ net.step = 1
    /\ LET r == parse_net(net.vm_config, net_config)
       IN  net' = [net EXCEPT
                      !.op = "parse_net", !.cmd = net_config,
                      !.ret = r.ret, !.err = r.err,
                      !.out = IF r.ret = Ok THEN r.v
                                            ELSE NetworkInterfaceConfig_default]
    /\ UNCHANGED <<devVars, ord, enc, regVars, cfg>>

NetNext ==
    \/ \E netdev_config \in NetdevConfigs : AddNetdev(netdev_config)
    \/ \E net_config \in NetConfigs : ParseNet(net_config)

SpecNet == NetInit /\ [][NetNext]_vars

(***************************************************************************)
(* Properties.                                                             *)
(***************************************************************************)
\* the stored driver features of a device as one 64-bit value
DriverFeatures64(d) ==
    get_driver_features(d, 0) \cup Shl32(get_driver_features(d, 1))

LastNegotiated == last.op \in {"checked", "negotiate"}

\* C1: for page 0, the low 32 bits of checked_driver_features(0, V) are V AND D
\* with D = get_device_features(0): offered bits absent from D are cleared,
\* offered bits present in D are retained, no bit that was not offered is
\* added; the call returns a mask, never an error.
C1_LowWindowIsOfferedAndDevice ==
    (LastNegotiated /\ last.page = 0) =>
        LET D == get_device_features(last.pre_dev, 0)
            V == last.value
            low == Window(last.mask, 0)
        IN  /\ last.ret = Ok
            /\ low = V \cap D
            /\ \A b \in U32 :
                /\ (b \in V /\ b \notin D) => b \notin low
                /\ (b \in V /\ b \in D) => b \in low
                /\ b \notin V => b \notin low

\* D = 0x221, V = 0x100221 gives 0x221
C1_Witness ==
    /\ last.op = "checked"
    /\ last.page = 0
    /\ get_device_features(last.pre_dev, 0) = {0, 5, 9}
    /\ last.value = {0, 5, 9, 20}
    /\ Window(last.mask, 0) = {0, 5, 9}

\* C2: from unset driver features, negotiating page 0 with A and page 1 with B
\* gives the same final 64-bit accepted mask (returned and stored) in either
\* page order.
C2_OrderIndependent ==
    ord.step = 2 =>
        /\ ord.mx = ord.my
        /\ DriverFeatures64(ord.x) = DriverFeatures64(ord.y)
        /\ ord.mx = DriverFeatures64(ord.x)

C2_Witness ==
    /\ ord.step = 2
    /\ Window(ord.mx, 0) # {}
    /\ Window(ord.mx, 1) # {}
    /\ ord.a \ get_device_features(ord.x, 0) # {}
    /\ ord.b \ get_device_features(ord.x, 1) # {}
    /\ ord.mx = ord.my

\* the valid variants: indices below the class's fixed count
ValidVariant(v) ==
    CASE v.tag = "KvmSpsr" -> v.idx < KVM_NR_SPSR
      [] v.tag = "UserPTRegRegs" -> v.idx < 31
      [] v.tag = "UserFPSIMDStateVregs" -> v.idx < 32
      [] OTHER -> TRUE

\* C3: the conversion of Arm64CoreRegs to a u64 id is deterministic and
\* injective over the valid variants: every valid variant has an id, the same
\* variant has the same id, and two distinct valid variants have distinct ids.
C3_EncodeInjective ==
    (enc.step = 2 /\ ValidVariant(enc.a) /\ ValidVariant(enc.b)) =>
        /\ ~enc.ra.panic
        /\ ~enc.rb.panic
        /\ (enc.a = enc.b => enc.ra.id = enc.rb.id)
        /\ (enc.a # enc.b => enc.ra.id # enc.rb.id)

C3_Witness ==
    /\ enc.step = 2
    /\ enc.a = KvmSpEl1
    /\ enc.b = UserPTRegSp
    /\ enc.ra.id # enc.rb.id
    /\ ~enc.ra.panic

IndexCount(tag) ==
    CASE tag = "KvmSpsr" -> KVM_NR_SPSR
      [] tag = "UserPTRegRegs" -> 31
      [] tag = "UserFPSIMDStateVregs" -> 32

IndexBearing(v) == v.tag \in {"KvmSpsr", "UserPTRegRegs", "UserFPSIMDStateVregs"}

\* C4: an index-bearing variant panics (no id) for every index at or above
\* its class's count and encodes for the highest valid index; an out-of-range
\* index never yields the id of another register.
C4_IndexBounds ==
    (enc.step = 2 /\ IndexBearing(enc.a)) =>
        /\ enc.a.idx >= IndexCount(enc.a.tag) =>
              /\ enc.ra.panic
              /\ enc.ra.id = {}
              /\ (~enc.rb.panic => enc.ra.id # enc.rb.id)
        /\ enc.a.idx = IndexCount(enc.a.tag) - 1 => ~enc.ra.panic

C4_Witness ==
    /\ enc.step = 2
    /\ enc.a = UserPTRegRegs(31)
    /\ enc.ra.panic
    /\ enc.b = UserPTRegRegs(30)
    /\ ~enc.rb.panic

(***************************************************************************)
(* The canonical register order: sp, sp_el1, pstate, pc, elr_el1, the      *)
(* general-purpose registers, the spsr registers, the vector registers     *)
(* (each ascending by index), fpsr, fpcr; each with the field of the       *)
(* register file that belongs to it.                                       *)
(***************************************************************************)
Canon(reg, name, idx) == [reg |-> reg, field |-> Field(name, idx)]

CanonicalOrder ==
    << Canon(UserPTRegSp, "regs.sp", 0), Canon(KvmSpEl1, "sp_el1", 0),
       Canon(UserPTRegPState, "regs.pstate", 0), Canon(UserPTRegPc, "regs.pc", 0),
       Canon(KvmElrEl1, "elr_el1", 0) >>
    \o [i \in 1..31 |-> Canon(UserPTRegRegs(i - 1), "regs.regs", i - 1)]
    \o [i \in 1..KVM_NR_SPSR |-> Canon(KvmSpsr(i - 1), "spsr", i - 1)]
    \o [i \in 1..32 |-> Canon(UserFPSIMDStateVregs(i - 1), "fp_regs.vregs", i - 1)]
    \o << Canon(UserFPSIMDStateFpsr, "fp_regs.fpsr", 0),
          Canon(UserFPSIMDStateFpcr, "fp_regs.fpcr", 0) >>

NumRegs == Len(CanonicalOrder)

\* the id KVM gives the i-th register of the canonical order
CanonId(i) ==
    LET e == CHOOSE e \in KvmRegTable :
                 e[2] = FieldOffset(CanonicalOrder[i].field)
    IN  RegId(e[1], e[2]).id

CanonIds == [i \in 1..NumRegs |-> CanonId(i)]

\* the first n accesses of the canonical order
CanonTrace(kind, n) == [i \in 1..n |-> Access(kind, CanonIds[i])]

\* C5: with no vcpu execution and no failing access in between, get_core_regs
\* followed by set_core_regs of the returned value leaves every vcpu register
\* as it was, and a second get_core_regs returns the same register file as
\* the first, in the 64-bit, 128-bit and 32-bit fields alike.
C5_RoundTrip ==
    /\ rt.stage = 2 => vcpu = rt.vcpu
    /\ rt.stage = 3 => (vcpu = rt.vcpu /\ call.file = rt.file)

\* a completed round trip of registers that use the top bit of their width
C5_Witness ==
    /\ rt.stage = 3
    /\ call.op = "get"
    /\ call.file = rt.file
    /\ 127 \in call.file[Field("fp_regs.vregs", 31)]
    /\ 63 \in call.file[Field("regs.pc", 0)]
    /\ 31 \in call.file[Field("fp_regs.fpcr", 0)]

\* C6: a successful get_core_regs issues exactly one read, and a successful
\* set_core_regs exactly one write, per register, both in the canonical order;
\* each field of the register file is read from and written to the register
\* id of the same variant.
C6_CanonicalOrder ==
    /\ (call.op = "get" /\ call.ret = Ok) =>
          /\ call.trace = CanonTrace("get", NumRegs)
          /\ {call.trace[i].id : i \in 1..Len(call.trace)} = KvmRegIds
          /\ Len(call.trace) = Cardinality(KvmRegIds)
          /\ \A i \in 1..NumRegs :
                call.file[CanonicalOrder[i].field] = call.pre_vcpu[CanonIds[i]]
    /\ (call.op = "set" /\ call.ret = Ok) =>
          /\ call.trace = CanonTrace("set", NumRegs)
          /\ {call.trace[i].id : i \in 1..Len(call.trace)} = KvmRegIds
          /\ Len(call.trace) = Cardinality(KvmRegIds)
          /\ \A i \in 1..NumRegs :
                vcpu[CanonIds[i]] = call.file[CanonicalOrder[i].field]

C6_Witness ==
    /\ call.op = "set"
    /\ call.ret = Ok
    /\ Len(call.trace) = 75
    /\ call.trace[3].id = From(UserPTRegPState).id
    /\ call.trace[4].id = From(UserPTRegPc).id
    /\ vcpu # call.pre_vcpu

\* C7: a failing write ends set_core_regs with that failure at the first
\* failing write: no write follows it, nothing is rolled back, the registers
\* before it in canonical order hold the new values, and it and all later
\* registers keep their previous values.
C7_PartialRestore ==
    (call.op = "set" /\ call.ret = Err) =>
        LET n == Len(call.trace)
        IN  /\ n >= 1
            /\ call.trace = CanonTrace("set", n)
            /\ CanonIds[n] \in call.pre_bad
            /\ \A i \in 1..(n - 1) : CanonIds[i] \notin call.pre_bad
            /\ \A i \in 1..(n - 1) :
                  vcpu[CanonIds[i]] = call.file[CanonicalOrder[i].field]
            /\ \A i \in n..NumRegs :
                  vcpu[CanonIds[i]] = call.pre_vcpu[CanonIds[i]]

\* a restore that fails in the middle, with new values before the failing
\* register and old values, different from the file's, after it
C7_Witness ==
    /\ call.op = "set"
    /\ call.ret = Err
    /\ Len(call.trace) = 40
    /\ vcpu[CanonIds[39]] # call.pre_vcpu[CanonIds[39]]
    /\ vcpu[CanonIds[41]] # call.file[CanonicalOrder[41].field]

\* C8: a failing read ends get_core_regs with that failure at the first
\* failing read: no read follows it and no register file is returned, neither
\* partial nor default-filled; get_core_regs never writes a vcpu register.
C8_CaptureFailure ==
    /\ (call.op = "get" /\ call.ret = Err) =>
          LET n == Len(call.trace)
          IN  /\ n >= 1
              /\ call.trace = CanonTrace("get", n)
              /\ CanonIds[n] \in call.pre_bad
              /\ \A i \in 1..(n - 1) : CanonIds[i] \notin call.pre_bad
              /\ call.file = NoRegs
              /\ call.file # DefaultRegs
    /\ call.op = "get" =>
          /\ vcpu = call.pre_vcpu
          /\ \A i \in 1..Len(call.trace) : call.trace[i].kind = "get"

C8_Witness ==
    /\ call.op = "get"
    /\ call.ret = Err
    /\ Len(call.trace) = 40
    /\ call.file = NoRegs
    /\ vcpu = call.pre_vcpu

\* C9: activate() is called only after the status went through ACKNOWLEDGE,
\* DRIVER, FEATURES_OK, DRIVER_OK in that order, a run driving the sequence
\* once calls it exactly once, and a negotiation step, narrowing or not,
\* never moves the device to FAILED.
C9_ActivateAfterSequence ==
    /\ activate_calls > 0 =>
          /\ Len(status_trace) >= 4
          /\ SubSeq(status_trace, 1, 4) =
                << CONFIG_STATUS_ACKNOWLEDGE, CONFIG_STATUS_DRIVER,
                   CONFIG_STATUS_FEATURES_OK, CONFIG_STATUS_DRIVER_OK >>
    /\ activate_calls <= 1
    /\ HasStatus(status, CONFIG_STATUS_DRIVER_OK) => activate_calls = 1
    /\ LastNegotiated =>
          /\ status = last.pre_status
          /\ ~HasStatus(status, CONFIG_STATUS_FAILED)

\* an activated device that narrowed the offered features on the way
C9_Witness ==
    /\ activate_calls = 1
    /\ HasStatus(status, CONFIG_STATUS_DRIVER_OK)
    /\ ~HasStatus(status, CONFIG_STATUS_FAILED)
    /\ get_driver_features(dev, 0) = {0, 5, 9}

\* a narrowing negotiation step
C9_NarrowingWitness ==
    /\ last.op = "negotiate"
    /\ last.value \ get_device_features(last.pre_dev, last.page) # {}
    /\ ~HasStatus(status, CONFIG_STATUS_FAILED)

\* C10 as claimed: after reset() returns success the driver features of page 0
\* and page 1 are cleared.
C10_ResetClearsDriverFeatures ==
    (last.op = "reset" /\ last.ret = Ok) =>
        /\ get_driver_features(dev, 0) = {}
        /\ get_driver_features(dev, 1) = {}

\* C10 as amended: the default reset() returns success and leaves the stored
\* driver features of both pages as they were, so a following
\* checked_driver_features still sees them; the status is back at its initial
\* value, and a device in FAILED leaves FAILED only through reset().
C10_ResetKeepsDriverFeatures ==
    /\ last.op = "reset" =>
          /\ last.ret = Ok
          /\ status = 0
          /\ activate_calls = 0
          /\ \A p \in Pages :
                get_driver_features(dev, p) = get_driver_features(last.pre_dev, p)
          /\ \A p \in Pages, v \in OfferedValues :
                Window(checked_driver_features(dev, p, v), 1 - p)
                    = get_driver_features(last.pre_dev, 1 - p)
    /\ HasStatus(last.pre_status, CONFIG_STATUS_FAILED) =>
          \/ HasStatus(status, CONFIG_STATUS_FAILED)
          \/ last.op = "reset" /\ status = 0

\* a reset from FAILED of a device with negotiated features on both pages
C10_Witness ==
    /\ last.op = "reset"
    /\ last.ret = Ok
    /\ HasStatus(last.pre_status, CONFIG_STATUS_FAILED)
    /\ get_driver_features(dev, 0) # {}
    /\ get_driver_features(dev, 1) # {}


(***************************************************************************)
(* The default unrealize, deactivate and update_config.                    *)
(***************************************************************************)
DefaultFailing == {"unrealize", "deactivate", "update_config"}

\* C11: on a variant that overrides none of them, unrealize(), deactivate()
\* and update_config() fail in whatever state they are called (before
\* realize, after it, while the device operates); the deactivate() failure
\* names the variant's device_type(); none of them changes the device, the
\* status or the activation count, and the lifecycle step that was possible
\* before the call is still possible after it
C11_DefaultsFailAndChangeNothing ==
    last.op \in DefaultFailing =>
        /\ last.ret = Err
        /\ dev = last.pre_dev
        /\ status = last.pre_status
        /\ activate_calls = last.pre_activate_calls
        /\ last.op = "deactivate" =>
               /\ Len(last.msg) = 2
               /\ last.msg[2] = device_type(dev)
        /\ ~dev.realized => ENABLED Realize
        /\ (dev.realized /\ status = 0) => ENABLED Acknowledge
        /\ Negotiating => ENABLED Negotiate(0, {0})
        /\ Negotiating => ENABLED FeaturesOk
        /\ status = CONFIG_STATUS_ACKNOWLEDGE + CONFIG_STATUS_DRIVER
                      + CONFIG_STATUS_FEATURES_OK => ENABLED DriverOk

\* deactivate() failed on an operating filesystem device with negotiated
\* features, and named its type
C11_Witness ==
    /\ last.op = "deactivate"
    /\ last.ret = Err
    /\ last.msg[2] = VIRTIO_TYPE_FS
    /\ HasStatus(status, CONFIG_STATUS_DRIVER_OK)
    /\ activate_calls = 1
    /\ get_driver_features(dev, 0) # {}

\* the three calls also fail on a device that was never realized
C11_BeforeRealizeWitness ==
    /\ last.op \in DefaultFailing
    /\ last.ret = Err
    /\ ~dev.realized

\* and on a realized device the guest has not yet touched
C11_AfterRealizeWitness ==
    /\ last.op \in DefaultFailing
    /\ last.ret = Err
    /\ dev.realized
    /\ status = 0

(***************************************************************************)
(* Configuration space accesses.                                           *)
(***************************************************************************)
\* the last access ran past the end of the configuration structure
OutOfConfig == ~InConfig(cfg.pre_config, cfg.offset, Len(cfg.buf))

\* C12: read_config and write_config fail whenever [offset, offset + len) is
\* not within the configuration structure, and a failed access applies
\* nothing: a failed read leaves the caller's buffer as it was, a failed
\* write leaves the configuration space as it was; an access that succeeds
\* transfers all len bytes, so no access is cut short
C12_OutOfBoundsFailsWhole ==
    /\ (cfg.op \in {"read", "write"} /\ OutOfConfig) => cfg.ret = Err
    /\ (cfg.op = "read" /\ cfg.ret = Err) =>
           (cfg.data = cfg.buf /\ cfg.config = cfg.pre_config)
    /\ (cfg.op = "write" /\ cfg.ret = Err) => cfg.config = cfg.pre_config
    /\ (cfg.op = "read" /\ cfg.ret = Ok) =>
           \A i \in 1..Len(cfg.buf) : cfg.data[i] = cfg.pre_config[cfg.offset + i]
    /\ (cfg.op = "write" /\ cfg.ret = Ok) =>
           \A i \in 1..Len(cfg.buf) : cfg.config[cfg.offset + i] = cfg.buf[i]

\* a 4-byte read at offset 100 failed on a structure that earlier writes had
\* changed, and the buffer still holds what the caller put there
C12_Witness ==
    /\ cfg.op = "read"
    /\ cfg.offset = 100
    /\ Len(cfg.buf) = 4
    /\ cfg.ret = Err
    /\ cfg.data = Buffer(4, BufferFill)
    /\ cfg.config # FreshConfig

\* a write that starts inside the structure and ends past it failed whole
C12_StraddlingWriteWitness ==
    /\ cfg.op = "write"
    /\ cfg.offset < Len(cfg.pre_config)
    /\ OutOfConfig
    /\ cfg.ret = Err
    /\ cfg.config = cfg.pre_config

(***************************************************************************)
(* The id formula, against the kvm_regs layout written out by hand.        *)
(***************************************************************************)
\* the byte offset of a valid variant's field: regs[31], sp, pc, pstate,
\* sp_el1, elr_el1, spsr[KVM_NR_SPSR] follow each other as 8-byte fields, then
\* come vregs[32] (16 bytes each) at the next multiple of 16, fpsr and fpcr
ByteOffset(v) ==
    LET regs == 0
        sp == regs + 31 * 8
        pc == sp + 8
        pstate == pc + 8
        sp_el1 == pstate + 8
        elr_el1 == sp_el1 + 8
        spsr == elr_el1 + 8
        spsr_end == spsr + KVM_NR_SPSR * 8
        vregs == IF spsr_end % 16 = 0 THEN spsr_end
                                      ELSE spsr_end + (16 - (spsr_end % 16))
        fpsr == vregs + 32 * 16
        fpcr == fpsr + 4
    IN  CASE v.tag = "UserPTRegRegs" -> regs + v.idx * 8
          [] v.tag = "UserPTRegSp" -> sp
          [] v.tag = "UserPTRegPc" -> pc
          [] v.tag = "UserPTRegPState" -> pstate
          [] v.tag = "KvmSpEl1" -> sp_el1
          [] v.tag = "KvmElrEl1" -> elr_el1
          [] v.tag = "KvmSpsr" -> spsr + v.idx * 8
          [] v.tag = "UserFPSIMDStateVregs" -> vregs + v.idx * 16
          [] v.tag = "UserFPSIMDStateFpsr" -> fpsr
          [] v.tag = "UserFPSIMDStateFpcr" -> fpcr

\* the width tag of a variant's register class
WidthTag(v) ==
    CASE v.tag = "UserFPSIMDStateVregs" -> KVM_REG_SIZE_U128
      [] v.tag \in {"UserFPSIMDStateFpsr", "UserFPSIMDStateFpcr"} -> KVM_REG_SIZE_U32
      [] OTHER -> KVM_REG_SIZE_U64

\* the bits of an id that hold the architecture class, the width and the group
TagBits == KVM_REG_ARM64 \cup KVM_REG_SIZE_U32 \cup KVM_REG_SIZE_U64
               \cup KVM_REG_SIZE_U128 \cup KVM_REG_ARM_CORE

\* C13: for every valid variant the id is KVM_REG_ARM64 | width_tag |
\* KVM_REG_ARM_CORE | (byte_offset / 4), with byte_offset the field's offset
\* in the kvm_regs layout and width_tag the 64-bit tag for the general,
\* sp, pc, pstate, sp_el1, elr_el1 and spsr registers, the 128-bit tag for the
\* vector registers and the 32-bit tag for fpsr and fpcr; the offset part
\* shares no bit with the class, width or group tags
C13_IdFormula ==
    (enc.step = 2 /\ ValidVariant(enc.a)) =>
        LET offset_part == Bits(ByteOffset(enc.a) \div 4)
        IN  /\ ~enc.ra.panic
            /\ enc.ra.id = KVM_REG_ARM64 \cup WidthTag(enc.a)
                               \cup KVM_REG_ARM_CORE \cup offset_part
            /\ offset_part \cap TagBits = {}
            /\ enc.ra.id \ TagBits = offset_part
            /\ enc.ra.id \cap ((TagBits \ KVM_REG_ARM_CORE) \ KVM_REG_ARM64)
                   = WidthTag(enc.a)

\* the last vector register, behind the alignment gap, and fpcr were encoded
C13_Witness ==
    /\ enc.step = 2
    /\ enc.a = UserFPSIMDStateVregs(31)
    /\ enc.b = UserFPSIMDStateFpcr
    /\ enc.ra.id = KVM_REG_ARM64 \cup KVM_REG_SIZE_U128 \cup KVM_REG_ARM_CORE
                       \cup Bits((336 + 31 * 16) \div 4)
    /\ enc.rb.id = KVM_REG_ARM64 \cup KVM_REG_SIZE_U32 \cup KVM_REG_ARM_CORE
                       \cup Bits(852 \div 4)

(***************************************************************************)
(* Net devices and the netdevs they name.                                  *)
(***************************************************************************)
\* the netdev id the last command line names, if it names one
NamedNetdev == get_value_String(net.cmd, "netdev").v

\* C14: parse_net succeeds only when the netdev the device string names was
\* registered earlier by add_netdev; the configuration it returns has the
\* device id as id, the netdev id as host_dev_name, and the mac, tap_fd,
\* vhost_type and vhost_fd of the registered netdev, vhost_type being
\* "vhost-kernel" exactly when the netdev was added with vhost=on and None
\* otherwise; naming a netdev that was never added, or having no netdevs at
\* all, is an error
C14_ParseNetNeedsNetdev ==
    net.op = "parse_net" =>
        /\ net.ret = Ok =>
              /\ NamedNetdev.some
              /\ NamedNetdev.v \in DOMAIN net.registered
              /\ LET added == net.registered[NamedNetdev.v]
                     id == get_value_String(net.cmd, "id").v
                 IN  /\ net.out.id = IF id.some THEN id.v ELSE <<>>
                     /\ net.out.host_dev_name = NamedNetdev.v
                     /\ net.out.mac = get_value_String(added, "mac").v
                     /\ net.out.tap_fd = get_value_i32(added, "fds").v
                     /\ net.out.vhost_fd = get_value_i32(added, "vhostfds").v
                     /\ net.out.vhost_type =
                            IF "vhost" \in DOMAIN added.fields
                               /\ added.fields["vhost"] = Str_on
                            THEN Some(Str_vhost_kernel)
                            ELSE None
        /\ (NamedNetdev.some /\ NamedNetdev.v \notin DOMAIN net.registered) =>
              net.ret = Err
        /\ ~net.vm_config.netdevs.some => net.ret = Err

\* the net device net1 got the mac, vhost type and vhost fd of netdev eth1,
\* which had been added with vhost=on before a second eth1 was refused
C14_Witness ==
    /\ net.op = "parse_net"
    /\ net.ret = Ok
    /\ net.out.id = Str_net1
    /\ net.out.host_dev_name = Str_eth1
    /\ net.out.mac = Some(Str_mac)
    /\ net.out.tap_fd = None
    /\ net.out.vhost_type = Some(Str_vhost_kernel)
    /\ net.out.vhost_fd = Some(4)
    /\ Str_eth0 \in DOMAIN net.registered

\* a net device naming eth2 failed while other netdevs were registered
C14_UnknownNetdevWitness ==
    /\ net.op = "parse_net"
    /\ net.ret = Err
    /\ NamedNetdev = Some(Str_eth2)
    /\ net.vm_config.netdevs.some
    /\ Str_eth2 \notin DOMAIN net.registered

(***************************************************************************)
(* The layout of the mask checked_driver_features returns, and what        *)
(* negotiation keeps true.                                                 *)
(***************************************************************************)
\* C15: checked_driver_features(page, value) returns the masked value in bits
\* 0-31 and the stored driver features of page 1 in bits 32-63 when page is
\* 0, and the masked value in bits 32-63 and the stored driver features of
\* page 0 in bits 0-31 when page is 1; a page with no driver features stored
\* contributes zero, so the first call on a fresh device returns a mask
\* whose other half is empty
C15_MaskLayout ==
    LastNegotiated =>
        LET page == last.page
            masked == last.value \cap get_device_features(last.pre_dev, page)
            other == get_driver_features(last.pre_dev, 1 - page)
        IN  /\ last.mask \subseteq 0..63
            /\ {b \in last.mask : b < 32} =
                   (IF page = 0 THEN masked ELSE other)
            /\ {b \in last.mask : b >= 32} =
                   {b + 32 : b \in (IF page = 0 THEN other ELSE masked)}
            /\ other = {} => Window(last.mask, 1 - page) = {}
            /\ (\A p \in Pages : get_driver_features(last.pre_dev, p) = {}) =>
                   last.mask = (IF page = 0 THEN masked ELSE Shl32(masked))

\* page 1 was negotiated with page 0 already stored: both halves are filled
C15_Witness ==
    /\ last.op = "negotiate"
    /\ last.page = 1
    /\ get_driver_features(last.pre_dev, 0) = {5, 20}
    /\ last.value = {0, 5, 31}
    /\ last.mask = {5, 20, 32, 63}

\* the first call on a fresh device, on page 1: the low half is empty
C15_FreshWitness ==
    /\ last.op = "checked"
    /\ last.page = 1
    /\ \A p \in Pages : get_driver_features(last.pre_dev, p) = {}
    /\ last.mask = {32, 63}

\* the device's features as one 64-bit set
DeviceFeatures64(d) ==
    get_device_features(d, 0) \cup Shl32(get_device_features(d, 1))

\* C16: with driver features that start at zero and change only through
\* set_driver_features(page, w), w being the page's window of the mask
\* checked_driver_features(page, v) just returned, after any negotiation
\* steps on pages 0 and 1, in any order and with any offered values, the
\* stored driver features of each page are a subset of that page's device
\* features and every returned mask is a subset of the device's 64-bit
\* feature set; checked_driver_features itself leaves the stored driver
\* features as they are
C16_NegotiatedWithinDevice ==
    /\ \A p \in Pages :
           get_driver_features(dev, p) \subseteq get_device_features(dev, p)
    /\ LastNegotiated => last.mask \subseteq DeviceFeatures64(last.pre_dev)
    /\ last.op = "checked" => dev = last.pre_dev
    /\ last.op = "negotiate" =>
           /\ get_driver_features(dev, last.page) = Window(last.mask, last.page)
           /\ get_driver_features(dev, 1 - last.page)
                  = get_driver_features(last.pre_dev, 1 - last.page)
           /\ dev.device_features = last.pre_dev.device_features

\* page 0 was renegotiated, after page 1, with an offer holding bits the
\* device lacks
C16_Witness ==
    /\ last.op = "negotiate"
    /\ last.page = 0
    /\ get_driver_features(last.pre_dev, 1) # {}
    /\ get_driver_features(last.pre_dev, 0) # {}
    /\ last.value \ get_device_features(dev, 0) # {}
    /\ get_driver_features(dev, 0) # {}
    /\ get_driver_features(dev, 0) # get_driver_features(last.pre_dev, 0)

=============================================================================
